---- MODULE Spec2Model ----
(***************************************************************************)
(* A model of trie-db's TrieDBMut (src/trie-db/src/triedbmut.rs): the      *)
(* in-memory node arena, insert / remove / fix, and commit over a          *)
(* prefixed, reference-counting backing store.                             *)
(*                                                                         *)
(* Arena indices are 1-based here (Rust: 0-based).  Option<T> is a         *)
(* sequence of length 0 or 1.  A hash is the injective wrapper [h |-> e]   *)
(* of the encoded node e it is the digest of.                              *)
(***************************************************************************)
EXTENDS Integers, Sequences, FiniteSets, TLC

\* ------------------------------------------------------------------ bounds
NumKeys == 3
NumVals == 2
MaxOps == 5
MaxTampers == 1

\* --------------------------------------------------------------- constants
\* Hasher::LENGTH, the digest width in bytes
LENGTH == 32
NibbleIdx == 0..15

Min(a, b) == IF a < b THEN a ELSE b

\* ------------------------------------------------------------------ inputs
\* keys are byte strings
KeyOf(i) ==
  CASE i = 1 -> <<1>>          \* 0x01
    [] i = 2 -> <<17>>         \* 0x11
    [] i = 3 -> <<1, 33>>      \* 0x01 0x21
    [] i = 4 -> <<2>>          \* 0x02
    [] OTHER -> <<>>
Keys == {KeyOf(i) : i \in 1..NumKeys}

\* keys that end where another key branches off, and the empty key
LeafKeys == {<<>>, <<1>>, <<2>>, <<1, 33>>}

\* a value is n copies of the byte b
Value(b, n) == [b |-> b, n |-> n]
EmptyValue == Value(0, 0)
ValOf(i) ==
  CASE i = 1 -> Value(1, 32)   \* a "big" value: its leaf is not inlined
    [] i = 2 -> Value(2, 1)
    [] OTHER -> Value(i, 32)
Vals == {ValOf(i) : i \in 1..NumVals}
is_empty_value(v) == v.n = 0

\* ------------------------------------------------------------ nibble slice
\* NibbleSlice::new(key): a byte string viewed as nibbles, high nibble first
NibbleSlice_new(key) ==
  [i \in 1..(2 * Len(key)) |->
     IF i % 2 = 1 THEN key[(i + 1) \div 2] \div 16 ELSE key[i \div 2] % 16]

\* NibbleSlice::mid(n)
mid(ns, n) == SubSeq(ns, n + 1, Len(ns))

\* NibbleSlice::common_prefix
common_prefix(a, b) ==
  LET m == Min(Len(a), Len(b))
      diff == {i \in 1..m : a[i] /= b[i]}
  IN IF diff = {} THEN m
     ELSE (CHOOSE i \in diff : \A j \in diff : i <= j) - 1

\* NibbleSlice::starts_with
starts_with(a, b) == common_prefix(a, b) = Len(b)

\* NibbleSlice::encoded(is_leaf): flag and parity in the first byte, then
\* the nibbles two per byte
encoded(ns, is_leaf) ==
  LET l == Len(ns)
      odd == l % 2
      head == (IF is_leaf THEN 32 ELSE 0) + (IF odd = 1 THEN 16 + ns[1] ELSE 0)
  IN <<head>> \o [i \in 1..(l \div 2) |-> ns[odd + 2 * i - 1] * 16 + ns[odd + 2 * i]]

\* NibbleSlice::encoded_leftmost(n, is_leaf)
encoded_leftmost(ns, n, is_leaf) == encoded(SubSeq(ns, 1, Min(n, Len(ns))), is_leaf)

\* NibbleSlice::from_encoded(e).0
NibbleSlice_from_encoded(e) ==
  LET odd == (e[1] \div 16) % 2
      n == 2 * (Len(e) - 1) + odd
  IN [i \in 1..n |->
        IF odd = 1 /\ i = 1 THEN e[1] % 16
        ELSE LET j == i - 1 - odd
             IN IF j % 2 = 0 THEN e[2 + j \div 2] \div 16 ELSE e[2 + j \div 2] % 16]

\* NibbleSlice::from_encoded(e).1
is_leaf_encoded(e) == (e[1] \div 32) % 2 = 1

\* NibbleSlice::new_composed(a, b)
new_composed(a, b) == a \o b

\* nibbleslice::EMPTY_ENCODED
EMPTY_ENCODED == <<0>>

\* nibbleslice::combine_encoded(prefix, extension)
combine_encoded(prefix, extension) ==
  encoded(new_composed(NibbleSlice_from_encoded(prefix), NibbleSlice_from_encoded(extension)), FALSE)

\* Partial::mid and Partial::encoded_prefix; a Partial is (key nibbles, split)
Partial_mid(key, split) == mid(key, split)
encoded_prefix(key, split) == encoded_leftmost(key, split, FALSE)

\* ------------------------------------------------------------------- nodes
None == <<>>
Some(v) == <<v>>

\* NodeHandle
InMemory(i) == [k |-> "mem", i |-> i]
HashHandle(h) == [k |-> "hash", h |-> h]
NoChild == [k |-> "none"]

empty_children == [i \in NibbleIdx |-> NoChild]

\* Node
Empty == [t |-> "empty"]
Leaf(partial, value) == [t |-> "leaf", partial |-> partial, value |-> value]
Extension(partial, child) == [t |-> "ext", partial |-> partial, child |-> child]
Branch(children, value) == [t |-> "branch", children |-> children, value |-> value]

\* Stored
New(node) == [s |-> "new", node |-> node]
Cached(node, hash) == [s |-> "cached", node |-> node, hash |-> hash]

\* ChildReference
RefHash(h) == [k |-> "hash", h |-> h]
RefInline(data, len) == [k |-> "inline", data |-> data, len |-> len]

\* ------------------------------------------------------- hasher and codec
Hasher_hash(data) == [h |-> data]

\* the encoded child field of a parent: a hash reference or an inline node
RefLen(ref) == IF ref.k = "none" THEN 0
               ELSE IF ref.k = "hash" THEN 1 + LENGTH ELSE 1 + ref.len

RECURSIVE SumRefLen(_, _)
SumRefLen(refs, i) == IF i > 15 THEN 0 ELSE RefLen(refs[i]) + SumRefLen(refs, i + 1)

empty_node == [t |-> "empty", len |-> 1]
leaf_node(partial, value) ==
  [t |-> "leaf", partial |-> partial, value |-> value,
   len |-> 1 + Len(partial) + 1 + value.n]
ext_node(partial, child_ref) ==
  [t |-> "ext", partial |-> partial, child |-> child_ref,
   len |-> 1 + Len(partial) + RefLen(child_ref)]
branch_node(child_refs, value) ==
  [t |-> "branch", children |-> child_refs, value |-> value,
   len |-> 3 + (IF value = None THEN 0 ELSE 1 + value[1].n) + SumRefLen(child_refs, 0)]

hashed_null_node == Hasher_hash(empty_node)

\* NodeCodec::try_decode_hash
try_decode_hash(ref) == IF ref.k = "hash" THEN Some(ref.h) ELSE None

\* ----------------------------------------------------------- backing store
\* MemoryDB with PrefixedKey: (prefix, hash) -> (data, signed reference count)
db_key(hash, prefix) == <<prefix, hash>>
DefaultData == [t |-> "default", len |-> 0]

db_get(db, hash, prefix) ==
  IF hash = hashed_null_node THEN Some(empty_node)
  ELSE IF db_key(hash, prefix) \in DOMAIN db /\ db[db_key(hash, prefix)].rc > 0
       THEN Some(db[db_key(hash, prefix)].data)
       ELSE None

db_contains(db, hash, prefix) ==
  IF hash = hashed_null_node THEN TRUE
  ELSE db_key(hash, prefix) \in DOMAIN db /\ db[db_key(hash, prefix)].rc > 0

db_emplace(db, k, data) ==
  IF k \in DOMAIN db
  THEN [db EXCEPT ![k] = [data |-> IF @.rc <= 0 THEN data ELSE @.data, rc |-> @.rc + 1]]
  ELSE [x \in DOMAIN db \cup {k} |-> IF x = k THEN [data |-> data, rc |-> 1] ELSE db[x]]

db_insert(db, prefix, data) ==
  IF data = empty_node THEN [db |-> db, hash |-> hashed_null_node]
  ELSE [db |-> db_emplace(db, db_key(Hasher_hash(data), prefix), data),
        hash |-> Hasher_hash(data)]

db_remove(db, hash, prefix) ==
  LET k == db_key(hash, prefix)
  IN IF hash = hashed_null_node THEN db
     ELSE IF k \in DOMAIN db THEN [db EXCEPT ![k].rc = @ - 1]
     ELSE [x \in DOMAIN db \cup {k} |-> IF x = k THEN [data |-> DefaultData, rc |-> 0 - 1] ELSE db[x]]

EmptyDb == [x \in {} |-> [data |-> DefaultData, rc |-> 0]]

\* ------------------------------------------------------------------- arena
\* The session ("self") threaded through the operations:
\*   T = [nodes, free_indices, db, root, root_handle, death_row, hash_count,
\*        calls, transmuted]
\* where calls is the sequence of the writes (insert, remove) the call in
\* progress has made on the backing store so far, and transmuted the cursor
\* positions at which it has turned a Leaf with an empty partial into a
\* Branch carrying the Leaf's value

\* NodeStorage::alloc
alloc(T, stored) ==
  IF T.free_indices /= <<>>
  THEN [T |-> [T EXCEPT !.nodes[Head(T.free_indices)] = stored,
                        !.free_indices = Tail(@)],
        h |-> Head(T.free_indices)]
  ELSE [T |-> [T EXCEPT !.nodes = Append(@, stored)],
        h |-> Len(T.nodes) + 1]

\* as destroy, but putting the index on the free list twice
destroy_freeing_twice(T, idx) ==
  [T |-> [T EXCEPT !.free_indices = Append(Append(@, idx), idx),
                   !.nodes[idx] = New(Empty)],
   stored |-> T.nodes[idx]]

\* NodeStorage::destroy
destroy(T, idx) ==
  [T |-> [T EXCEPT !.free_indices = Append(@, idx), !.nodes[idx] = New(Empty)],
   stored |-> T.nodes[idx]]

\* Index<&StorageHandle> for NodeStorage
storage_index(T, idx) == T.nodes[idx].node

\* ------------------------------------------------- decoding into the arena
RECURSIVE Node_from_encoded(_, _), inline_or_hash(_, _), decode_children(_, _, _, _)

\* Node::inline_or_hash: a hash reference stays a hash handle; an inline
\* child is decoded into the arena as a New slot
inline_or_hash(ref, T) ==
  IF try_decode_hash(ref) /= None
  THEN [T |-> T, handle |-> HashHandle(try_decode_hash(ref)[1])]
  ELSE LET stored(c) == alloc(c.T, New(c.node))
           handle(a) == [T |-> a.T, handle |-> InMemory(a.h)]
       IN handle(stored(Node_from_encoded(ref.data, T)))

\* the child(0) .. child(15) calls of Node::from_encoded, in order
decode_children(refs, i, T, acc) ==
  IF i > 15 THEN [T |-> T, children |-> acc]
  ELSE IF refs[i].k = "none" THEN decode_children(refs, i + 1, T, acc)
  ELSE LET next(r) == decode_children(refs, i + 1, r.T, [acc EXCEPT ![i] = r.handle])
       IN next(inline_or_hash(refs[i], T))

\* Node::from_encoded
Node_from_encoded(data, T) ==
  CASE data.t = "leaf" ->
         [T |-> T,
          node |-> Leaf(encoded(NibbleSlice_from_encoded(data.partial), TRUE), data.value)]
    [] data.t = "ext" ->
         LET extension(r) ==
               [T |-> r.T,
                node |-> Extension(encoded(NibbleSlice_from_encoded(data.partial), FALSE), r.handle)]
         IN extension(inline_or_hash(data.child, T))
    [] data.t = "branch" ->
         LET branch(r) == [T |-> r.T, node |-> Branch(r.children, data.value)]
         IN branch(decode_children(data.children, 0, T, empty_children))
    [] OTHER -> [T |-> T, node |-> Empty]

\* as cache, but taking a node the store does not hold for an empty one
cache_missing_as_empty(T, hash, key) ==
  LET got == db_get(T.db, hash, key)
      stored(d) == alloc(d.T, Cached(d.node, hash))
      handle(a) == [ok |-> TRUE, T |-> a.T, h |-> a.h]
  IN handle(stored(Node_from_encoded(IF got = None THEN empty_node ELSE got[1], T)))

\* TrieDBMut::cache
cache(T, hash, key) ==
  LET got == db_get(T.db, hash, key)
      stored(d) == alloc(d.T, Cached(d.node, hash))
      handle(a) == [ok |-> TRUE, T |-> a.T, h |-> a.h]
  IN IF got = None THEN [ok |-> FALSE, err |-> hash, T |-> T]
     ELSE handle(stored(Node_from_encoded(got[1], T)))

\* ------------------------------------------------------------------ lookup
RECURSIVE Lookup_look_up(_, _, _, _), Lookup_node(_, _, _, _)

Lookup_child(db, ref, key, pos) ==
  IF ref.k = "hash" THEN Lookup_look_up(db, ref.h, key, pos)
  ELSE Lookup_node(db, ref.data, key, pos)

\* the read-only descent through the backing store
Lookup_look_up(db, hash, key, pos) ==
  LET got == db_get(db, hash, encoded_leftmost(key, pos, FALSE))
  IN IF got = None THEN [ok |-> FALSE, err |-> hash]
     ELSE Lookup_node(db, got[1], key, pos)

Lookup_node(db, data, key, pos) ==
  LET partial == mid(key, pos)
  IN CASE data.t = "leaf" ->
            [ok |-> TRUE,
             val |-> IF NibbleSlice_from_encoded(data.partial) = partial
                     THEN Some(data.value) ELSE None]
       [] data.t = "ext" ->
            LET slice == NibbleSlice_from_encoded(data.partial)
            IN IF starts_with(partial, slice)
               THEN Lookup_child(db, data.child, key, pos + Len(slice))
               ELSE [ok |-> TRUE, val |-> None]
       [] data.t = "branch" ->
            IF partial = <<>> THEN [ok |-> TRUE, val |-> data.value]
            ELSE IF data.children[partial[1]].k = "none" THEN [ok |-> TRUE, val |-> None]
            ELSE Lookup_child(db, data.children[partial[1]], key, pos + 1)
       [] OTHER -> [ok |-> TRUE, val |-> None]

RECURSIVE lookup(_, _, _, _)
\* TrieDBMut::lookup: walk the arena, fall through to the store at a hash
lookup(T, key, pos, handle) ==
  LET partial == mid(key, pos)
  IN IF handle.k = "hash" THEN Lookup_look_up(T.db, handle.h, key, pos)
     ELSE LET node == storage_index(T, handle.i)
          IN CASE node.t = "empty" -> [ok |-> TRUE, val |-> None]
               [] node.t = "leaf" ->
                    [ok |-> TRUE,
                     val |-> IF NibbleSlice_from_encoded(node.partial) = partial
                             THEN Some(node.value) ELSE None]
               [] node.t = "ext" ->
                    LET slice == NibbleSlice_from_encoded(node.partial)
                    IN IF starts_with(partial, slice)
                       THEN lookup(T, key, pos + Len(slice), node.child)
                       ELSE [ok |-> TRUE, val |-> None]
               [] node.t = "branch" ->
                    IF partial = <<>> THEN [ok |-> TRUE, val |-> node.value]
                    ELSE IF node.children[partial[1]].k = "none"
                         THEN [ok |-> TRUE, val |-> None]
                         ELSE lookup(T, key, pos + 1, node.children[partial[1]])

\* TrieMut::get
get(T, key) == lookup(T, NibbleSlice_new(key), 0, T.root_handle)

\* as is_empty, but reading the root cell instead of the root handle
is_empty_root_cell(T) == T.root = hashed_null_node

\* TrieMut::is_empty
is_empty(T) ==
  IF T.root_handle.k = "hash" THEN T.root_handle.h = hashed_null_node
  ELSE storage_index(T, T.root_handle.i).t = "empty"

\* ------------------------------------------------------------------ insert
\* Outcomes.  A failed call returns [ok |-> FALSE, err, T]: `?` leaves the
\* session as mutated so far.  The key cursor (Partial.split) is a &mut and
\* is returned with every successful outcome.
Fail(err, T) == [ok |-> FALSE, err |-> err, T |-> T]
Panic(msg, T) == [ok |-> FALSE, err |-> [panic |-> msg], T |-> T]

\* assert!(!existing_key.is_empty()) in insert_inspector
AssertionFailed == [panic |-> "assertion failed: !existing_key.is_empty()"]

\* InsertAction / Action as returned by an inspector
Act(act, node, T, split, old_val) ==
  [ok |-> TRUE, act |-> act, node |-> node, T |-> T, split |-> split, old_val |-> old_val]

\* as inspect, but removing a replaced or deleted cached node from the
\* backing store at once instead of queueing it on the death row
inspect_removing_at_once(stored, key, r) ==
  IF ~r.ok THEN r
  ELSE LET T == IF stored.s = "cached" /\ r.act /= "restore"
                THEN [r.T EXCEPT !.db = db_remove(@, stored.hash, encoded_prefix(key, r.split))]
                ELSE r.T
       IN IF r.act = "delete"
          THEN [ok |-> TRUE, T |-> T, split |-> r.split, old_val |-> r.old_val,
                deleted |-> TRUE]
          ELSE [ok |-> TRUE, T |-> T, split |-> r.split, old_val |-> r.old_val,
                deleted |-> FALSE,
                stored |-> IF stored.s = "cached" /\ r.act = "restore"
                           THEN Cached(r.node, stored.hash) ELSE New(r.node),
                changed |-> r.act /= "restore"]

\* TrieDBMut::inspect, applied to the inspector's outcome r on `stored`
inspect(stored, key, r) ==
  IF ~r.ok THEN r
  ELSE IF stored.s = "new"
  THEN CASE r.act = "restore" ->
              [ok |-> TRUE, T |-> r.T, split |-> r.split, old_val |-> r.old_val,
               deleted |-> FALSE, stored |-> New(r.node), changed |-> FALSE]
         [] r.act = "replace" ->
              [ok |-> TRUE, T |-> r.T, split |-> r.split, old_val |-> r.old_val,
               deleted |-> FALSE, stored |-> New(r.node), changed |-> TRUE]
         [] OTHER ->
              [ok |-> TRUE, T |-> r.T, split |-> r.split, old_val |-> r.old_val,
               deleted |-> TRUE]
  ELSE CASE r.act = "restore" ->
              [ok |-> TRUE, T |-> r.T, split |-> r.split, old_val |-> r.old_val,
               deleted |-> FALSE, stored |-> Cached(r.node, stored.hash), changed |-> FALSE]
         [] r.act = "replace" ->
              [ok |-> TRUE,
               T |-> [r.T EXCEPT !.death_row = @ \cup {<<stored.hash, encoded_prefix(key, r.split)>>}],
               split |-> r.split, old_val |-> r.old_val,
               deleted |-> FALSE, stored |-> New(r.node), changed |-> TRUE]
         [] OTHER ->
              [ok |-> TRUE,
               T |-> [r.T EXCEPT !.death_row = @ \cup {<<stored.hash, encoded_prefix(key, r.split)>>}],
               split |-> r.split, old_val |-> r.old_val,
               deleted |-> TRUE]

RECURSIVE insert_at(_, _, _, _, _, _), insert_inspector(_, _, _, _, _, _)

\* as shared_extension, but keeping the whole existing partial
shared_extension_whole(existing_key, cp, handle) ==
  Extension(encoded(existing_key, FALSE), handle)

\* insert_inspector, partially-shared prefix: the extension over the common
\* prefix of the existing partial
shared_extension(existing_key, cp, handle) ==
  Extension(encoded_leftmost(existing_key, cp, FALSE), handle)

\* TrieDBMut::insert_at
insert_at(T, handle, key, split, value, old_val) ==
  LET allocated(i, a) ==
        [ok |-> TRUE, T |-> a.T, split |-> i.split, old_val |-> i.old_val,
         h |-> a.h, changed |-> i.changed]
      inspected(i) == IF ~i.ok THEN i ELSE allocated(i, alloc(i.T, i.stored))
      destroyed(d) ==
        inspected(inspect(d.stored, key,
                          insert_inspector(d.T, d.stored.node, key, split, value, old_val)))
      cached(c) == IF ~c.ok THEN c ELSE destroyed(destroy(c.T, c.h))
  IN cached(IF handle.k = "mem" THEN [ok |-> TRUE, T |-> T, h |-> handle.i]
            ELSE cache(T, handle.h, encoded_prefix(key, split)))

\* TrieDBMut::insert_inspector
insert_inspector(T, node, key, split, value, old_val) ==
  LET partial == Partial_mid(key, split)
      \* the outcome r of the recursive call, forced to Replace
      replaced(r) == IF ~r.ok THEN r ELSE [r EXCEPT !.act = "replace"]
  IN CASE node.t = "empty" ->
            Act("replace", Leaf(encoded(partial, TRUE), value), T, split, old_val)
       [] node.t = "branch" ->
            IF partial = <<>>
            THEN Act(IF node.value = Some(value) THEN "restore" ELSE "replace",
                     Branch(node.children, Some(value)), T, split, node.value)
            ELSE LET idx == partial[1]
                     inserted(r) ==
                       IF ~r.ok THEN r
                       ELSE Act(IF r.changed THEN "replace" ELSE "restore",
                                Branch([node.children EXCEPT ![idx] = InMemory(r.h)], node.value),
                                r.T, r.split, r.old_val)
                     added(a) ==
                       Act("replace",
                           Branch([node.children EXCEPT ![idx] = InMemory(a.h)], node.value),
                           a.T, split + 1, old_val)
                 IN IF node.children[idx].k /= "none"
                    THEN inserted(insert_at(T, node.children[idx], key, split + 1, value, old_val))
                    ELSE added(alloc(T, New(Leaf(encoded(Partial_mid(key, split + 1), TRUE), value))))
       [] node.t = "leaf" ->
            LET existing_key == NibbleSlice_from_encoded(node.partial)
                cp == common_prefix(partial, existing_key)
                branched(a) ==
                  insert_inspector(a.T,
                    Branch([empty_children EXCEPT ![existing_key[1]] = InMemory(a.h)], None),
                    key, split, value, old_val)
                stub_at(r, a) ==
                  Act("replace", Extension(encoded(existing_key, FALSE), InMemory(a.h)),
                      a.T, r.split, r.old_val)
                stub(r) == IF ~r.ok THEN r ELSE stub_at(r, alloc(r.T, New(r.node)))
                shared_at(r, a) ==
                  Act("replace", shared_extension(existing_key, cp, InMemory(a.h)),
                      a.T, r.split, r.old_val)
                shared(r) == IF ~r.ok THEN r ELSE shared_at(r, alloc(r.T, New(r.node)))
            IN IF cp = Len(existing_key) /\ cp = Len(partial)
               THEN Act(IF node.value = value THEN "restore" ELSE "replace",
                        Leaf(node.partial, value), T, split, Some(node.value))
               ELSE IF cp = 0
               THEN replaced(
                      IF existing_key = <<>>
                      THEN insert_inspector([T EXCEPT !.transmuted = @ \cup {split}],
                                            Branch(empty_children, Some(node.value)),
                                            key, split, value, old_val)
                      ELSE branched(alloc(T, New(Leaf(encoded(mid(existing_key, 1), TRUE),
                                                      node.value)))))
               ELSE IF cp = Len(existing_key)
               THEN stub(insert_inspector(T, Branch(empty_children, Some(node.value)),
                                          key, split + cp, value, old_val))
               ELSE shared(insert_inspector(T,
                             Leaf(encoded(mid(existing_key, cp), TRUE), node.value),
                             key, split + cp, value, old_val))
       [] OTHER ->
            LET existing_key == NibbleSlice_from_encoded(node.partial)
                cp == common_prefix(partial, existing_key)
                branched(a) ==
                  insert_inspector(a.T,
                    Branch([empty_children EXCEPT ![existing_key[1]] = InMemory(a.h)], None),
                    key, split, value, old_val)
                inserted(r) ==
                  IF ~r.ok THEN r
                  ELSE Act(IF r.changed THEN "replace" ELSE "restore",
                           Extension(encoded(existing_key, FALSE), InMemory(r.h)),
                           r.T, r.split, r.old_val)
                shared_at(r, a) ==
                  Act("replace", shared_extension(existing_key, cp, InMemory(a.h)),
                      a.T, r.split, r.old_val)
                shared(r) == IF ~r.ok THEN r ELSE shared_at(r, alloc(r.T, New(r.node)))
            IN IF cp = 0
               THEN IF existing_key = <<>>
                    THEN Fail(AssertionFailed, T)
                    ELSE replaced(
                           IF Len(existing_key) = 1
                           THEN insert_inspector(T,
                                  Branch([empty_children EXCEPT ![existing_key[1]] = node.child], None),
                                  key, split, value, old_val)
                           ELSE branched(alloc(T, New(Extension(encoded(mid(existing_key, 1), FALSE),
                                                                node.child)))))
               ELSE IF cp = Len(existing_key)
               THEN inserted(insert_at(T, node.child, key, split + cp, value, old_val))
               ELSE shared(insert_inspector(T,
                             Extension(encoded(mid(existing_key, cp), FALSE), node.child),
                             key, split + cp, value, old_val))

\* ------------------------------------------------------------------ remove
RECURSIVE fix(_, _, _)

\* as combined_leaf, but encoded with the extension flag
combined_leaf_unflagged(partial, sub_partial, value) ==
  Leaf(encoded(new_composed(NibbleSlice_from_encoded(partial),
                            NibbleSlice_from_encoded(sub_partial)), FALSE), value)

\* fix, Node::Leaf(sub_partial, value) under an Extension: the combined leaf
combined_leaf(partial, sub_partial, value) ==
  Leaf(encoded(new_composed(NibbleSlice_from_encoded(partial),
                            NibbleSlice_from_encoded(sub_partial)), TRUE), value)

\* as fix_branch, but leaving the branch as it is
fix_branch_unfixed(T, children, value, key) ==
  [ok |-> TRUE, T |-> T, node |-> Branch(children, value)]

\* as fix_branch, but restoring a Branch left with one child and no value
\* instead of turning it into an Extension
fix_branch_keeping_single(T, children, value, key) ==
  LET used == {i \in NibbleIdx : children[i].k /= "none"}
  IN IF used = {} /\ value = None
     THEN Panic("Branch with no subvalues. Something went wrong.", T)
     ELSE IF used = {}
     THEN [ok |-> TRUE, T |-> T, node |-> Leaf(encoded(<<>>, TRUE), value[1])]
     ELSE [ok |-> TRUE, T |-> T, node |-> Branch(children, value)]

\* fix, Node::Branch arm
fix_branch(T, children, value, key) ==
  LET used == {i \in NibbleIdx : children[i].k /= "none"}
  IN IF used = {} /\ value = None
     THEN Panic("Branch with no subvalues. Something went wrong.", T)
     ELSE IF Cardinality(used) = 1 /\ value = None
     THEN LET a == CHOOSE i \in used : TRUE
          IN fix(T, Extension(encoded(<<a>>, FALSE), children[a]), key)
     ELSE IF used = {}
     THEN [ok |-> TRUE, T |-> T, node |-> Leaf(encoded(<<>>, TRUE), value[1])]
     ELSE [ok |-> TRUE, T |-> T, node |-> Branch(children, value)]

\* as fix_extension, but leaving the extension as it is
fix_extension_unfixed(T, partial, child, key) ==
  [ok |-> TRUE, T |-> T, node |-> Extension(partial, child)]

\* fix, Node::Extension arm
fix_extension(T, partial, child, key) ==
  LET restored(a) == [ok |-> TRUE, T |-> a.T, node |-> Extension(partial, InMemory(a.h))]
      destroyed(d) ==
        LET child_node == d.stored.node
            doomed == IF d.stored.s = "cached" THEN {<<d.stored.hash, key>>} ELSE {}
        IN CASE child_node.t = "ext" ->
                  fix([d.T EXCEPT !.death_row = @ \cup doomed],
                      Extension(encoded(new_composed(NibbleSlice_from_encoded(partial),
                                  NibbleSlice_from_encoded(child_node.partial)), FALSE),
                                child_node.child),
                      key)
             [] child_node.t = "leaf" ->
                  [ok |-> TRUE,
                   T |-> [d.T EXCEPT !.death_row = @ \cup doomed],
                   node |-> combined_leaf(partial, child_node.partial, child_node.value)]
             [] OTHER -> restored(alloc(d.T, d.stored))
      cached(c) == IF ~c.ok THEN c ELSE destroyed(destroy(c.T, c.h))
  IN cached(IF child.k = "mem" THEN [ok |-> TRUE, T |-> T, h |-> child.i]
            ELSE cache(T, child.h, combine_encoded(key, partial)))

\* TrieDBMut::fix; `key` is the encoded prefix handed in by the caller
fix(T, node, key) ==
  CASE node.t = "branch" -> fix_branch(T, node.children, node.value, key)
    [] node.t = "ext" -> fix_extension(T, node.partial, node.child, key)
    [] OTHER -> [ok |-> TRUE, T |-> T, node |-> node]

RECURSIVE remove_at(_, _, _, _, _), remove_inspector(_, _, _, _, _)

\* TrieDBMut::remove_at
remove_at(T, handle, key, split, old_val) ==
  LET allocated(i, a) ==
        [ok |-> TRUE, T |-> a.T, split |-> i.split, old_val |-> i.old_val,
         deleted |-> FALSE, h |-> a.h, changed |-> i.changed]
      inspected(i) ==
        IF ~i.ok THEN i
        ELSE IF i.deleted
        THEN [ok |-> TRUE, T |-> i.T, split |-> i.split, old_val |-> i.old_val,
              deleted |-> TRUE]
        ELSE allocated(i, alloc(i.T, i.stored))
      destroyed(d) ==
        inspected(inspect(d.stored, key,
                          remove_inspector(d.T, d.stored.node, key, split, old_val)))
      cached(c) == IF ~c.ok THEN c ELSE destroyed(destroy(c.T, c.h))
  IN cached(IF handle.k = "mem" THEN [ok |-> TRUE, T |-> T, h |-> handle.i]
            ELSE cache(T, handle.h, encoded_prefix(key, split)))

\* TrieDBMut::remove_inspector
remove_inspector(T, node, key, split, old_val) ==
  LET partial == Partial_mid(key, split)
      prefix == encoded_prefix(key, split)
      \* the fixed node f replaces this one
      fixed(f, at, old) == IF ~f.ok THEN f ELSE Act("replace", f.node, f.T, at, old)
  IN CASE node.t = "empty" -> Act("delete", Empty, T, split, old_val)
       [] node.t = "branch" /\ partial = <<>> ->
            IF node.value = None THEN Act("restore", node, T, split, old_val)
            ELSE fixed(fix(T, Branch(node.children, None), prefix), split, node.value)
       [] node.t = "branch" /\ partial /= <<>> ->
            LET idx == partial[1]
                removed(r) ==
                  IF ~r.ok THEN r
                  ELSE IF ~r.deleted
                  THEN Act(IF r.changed THEN "replace" ELSE "restore",
                           Branch([node.children EXCEPT ![idx] = InMemory(r.h)], node.value),
                           r.T, r.split, r.old_val)
                  ELSE fixed(fix(r.T,
                                 Branch([node.children EXCEPT ![idx] = NoChild], node.value),
                                 prefix),
                             r.split, r.old_val)
            IN IF node.children[idx].k = "none"
               THEN Act("restore", node, T, split, old_val)
               ELSE removed(remove_at(T, node.children[idx], key, split + 1, old_val))
       [] node.t = "leaf" ->
            IF NibbleSlice_from_encoded(node.partial) = partial
            THEN Act("delete", Empty, T, split, Some(node.value))
            ELSE Act("restore", node, T, split, old_val)
       [] OTHER ->
            LET existing_key == NibbleSlice_from_encoded(node.partial)
                cp == common_prefix(existing_key, partial)
                removed(r) ==
                  IF ~r.ok THEN r
                  ELSE IF r.deleted THEN Act("delete", Empty, r.T, r.split, r.old_val)
                  ELSE IF r.changed
                  THEN fixed(fix(r.T, Extension(node.partial, InMemory(r.h)), prefix),
                             r.split, r.old_val)
                  ELSE Act("restore", Extension(node.partial, InMemory(r.h)),
                           r.T, r.split, r.old_val)
            IN IF cp = Len(existing_key)
               THEN removed(remove_at(T, node.child, key, split + cp, old_val))
               ELSE Act("restore", node, T, split, old_val)

\* ------------------------------------------------------------------ commit
\* a write on the backing store, as recorded in T.calls
BackingInsert(hash, prefix) == [call |-> "insert", hash |-> hash, prefix |-> prefix]
BackingRemove(hash, prefix) == [call |-> "remove", hash |-> hash, prefix |-> prefix]

RECURSIVE commit_child(_, _, _), into_encoded(_, _, _), encode_children(_, _, _, _, _)

\* Node::into_encoded with child_cb = commit_child under `prefix`
into_encoded(T, node, prefix) ==
  CASE node.t = "empty" -> [T |-> T, data |-> empty_node]
    [] node.t = "leaf" -> [T |-> T, data |-> leaf_node(node.partial, node.value)]
    [] node.t = "ext" ->
         LET extension(r) == [T |-> r.T, data |-> ext_node(node.partial, r.ref)]
         IN extension(commit_child(T, node.child, combine_encoded(prefix, node.partial)))
    [] OTHER ->
         LET branch(r) == [T |-> r.T, data |-> branch_node(r.refs, node.value)]
         IN branch(encode_children(T, node.children, 0, prefix, empty_children))

\* the children of a Branch, in index order
encode_children(T, children, i, prefix, acc) ==
  IF i > 15 THEN [T |-> T, refs |-> acc]
  ELSE IF children[i].k = "none" THEN encode_children(T, children, i + 1, prefix, acc)
  ELSE LET next(r) == encode_children(r.T, children, i + 1, prefix, [acc EXCEPT ![i] = r.ref])
       IN next(commit_child(T, children[i], combine_encoded(prefix, encoded(<<i>>, FALSE))))

\* as commit_child, but a node's insert is made ahead of its children's
commit_child_parent_first(T, handle, prefix) ==
  LET inserted(e, ins) ==
        [T |-> [e.T EXCEPT !.db = ins.db, !.hash_count = @ + 1,
                           !.calls = SubSeq(@, 1, Len(T.calls))
                                     \o <<BackingInsert(ins.hash, prefix)>>
                                     \o SubSeq(@, Len(T.calls) + 1, Len(@))],
         ref |-> RefHash(ins.hash)]
      encoded_node(e) ==
        IF e.data.len >= LENGTH
        THEN inserted(e, db_insert(e.T.db, prefix, e.data))
        ELSE [T |-> e.T, ref |-> RefInline(e.data, e.data.len)]
      destroyed(d) ==
        IF d.stored.s = "cached" THEN [T |-> d.T, ref |-> RefHash(d.stored.hash)]
        ELSE encoded_node(into_encoded(d.T, d.stored.node, prefix))
  IN IF handle.k = "hash" THEN [T |-> T, ref |-> RefHash(handle.h)]
     ELSE destroyed(destroy(T, handle.i))

\* as commit_child, but writing every New node whatever its length
commit_child_always_hashing(T, handle, prefix) ==
  LET inserted(e, ins) ==
        [T |-> [e.T EXCEPT !.db = ins.db, !.hash_count = @ + 1,
                           !.calls = Append(@, BackingInsert(ins.hash, prefix))],
         ref |-> RefHash(ins.hash)]
      encoded_node(e) == inserted(e, db_insert(e.T.db, prefix, e.data))
      destroyed(d) ==
        IF d.stored.s = "cached" THEN [T |-> d.T, ref |-> RefHash(d.stored.hash)]
        ELSE encoded_node(into_encoded(d.T, d.stored.node, prefix))
  IN IF handle.k = "hash" THEN [T |-> T, ref |-> RefHash(handle.h)]
     ELSE destroyed(destroy(T, handle.i))

\* TrieDBMut::commit_child
commit_child(T, handle, prefix) ==
  LET inserted(e, ins) ==
        [T |-> [e.T EXCEPT !.db = ins.db, !.hash_count = @ + 1,
                           !.calls = Append(@, BackingInsert(ins.hash, prefix))],
         ref |-> RefHash(ins.hash)]
      encoded_node(e) ==
        IF e.data.len >= LENGTH
        THEN inserted(e, db_insert(e.T.db, prefix, e.data))
        ELSE [T |-> e.T, ref |-> RefInline(e.data, e.data.len)]
      destroyed(d) ==
        IF d.stored.s = "cached" THEN [T |-> d.T, ref |-> RefHash(d.stored.hash)]
        ELSE encoded_node(into_encoded(d.T, d.stored.node, prefix))
  IN IF handle.k = "hash" THEN [T |-> T, ref |-> RefHash(handle.h)]
     ELSE destroyed(destroy(T, handle.i))

RECURSIVE drain(_, _)
\* for (hash, prefix) in self.death_row.drain() { self.db.remove(&hash, &prefix) }
drain(T, row) ==
  IF row = {} THEN [T EXCEPT !.death_row = {}]
  ELSE LET e == CHOOSE x \in row : TRUE
       IN drain([T EXCEPT !.db = db_remove(@, e[1], e[2]),
                          !.calls = Append(@, BackingRemove(e[1], e[2]))],
                row \ {e})

\* as commit, but draining the death row after the walk instead of before
commit_draining_last(T) ==
  LET inserted(e, ins) ==
        [e.T EXCEPT !.db = ins.db, !.root = ins.hash, !.hash_count = @ + 1,
                    !.root_handle = HashHandle(ins.hash),
                    !.calls = Append(@, BackingInsert(ins.hash, EMPTY_ENCODED))]
      encoded_root(e) == inserted(e, db_insert(e.T.db, EMPTY_ENCODED, e.data))
      restored(d, a) == [a.T EXCEPT !.root = d.stored.hash, !.root_handle = InMemory(a.h)]
      destroyed(d) ==
        IF d.stored.s = "new"
        THEN encoded_root(into_encoded(d.T, d.stored.node, EMPTY_ENCODED))
        ELSE restored(d, alloc(d.T, Cached(d.stored.node, d.stored.hash)))
      walked(T1) == drain(T1, T1.death_row)
  IN walked(IF T.root_handle.k = "hash" THEN T
            ELSE destroyed(destroy(T, T.root_handle.i)))

\* as commit, but leaving the drained pairs on the death row
commit_keeping_death_row(T) ==
  LET inserted(e, ins) ==
        [e.T EXCEPT !.db = ins.db, !.root = ins.hash, !.hash_count = @ + 1,
                    !.root_handle = HashHandle(ins.hash),
                    !.calls = Append(@, BackingInsert(ins.hash, EMPTY_ENCODED))]
      encoded_root(e) == inserted(e, db_insert(e.T.db, EMPTY_ENCODED, e.data))
      restored(d, a) == [a.T EXCEPT !.root = d.stored.hash, !.root_handle = InMemory(a.h)]
      destroyed(d) ==
        IF d.stored.s = "new"
        THEN encoded_root(into_encoded(d.T, d.stored.node, EMPTY_ENCODED))
        ELSE restored(d, alloc(d.T, Cached(d.stored.node, d.stored.hash)))
      drained(T1) ==
        IF T1.root_handle.k = "hash" THEN T1
        ELSE destroyed(destroy(T1, T1.root_handle.i))
      kept(T1) == [T1 EXCEPT !.death_row = T.death_row]
  IN drained(kept(drain(T, T.death_row)))

\* TrieDBMut::commit
commit(T) ==
  LET inserted(e, ins) ==
        [e.T EXCEPT !.db = ins.db, !.root = ins.hash, !.hash_count = @ + 1,
                    !.root_handle = HashHandle(ins.hash),
                    !.calls = Append(@, BackingInsert(ins.hash, EMPTY_ENCODED))]
      encoded_root(e) == inserted(e, db_insert(e.T.db, EMPTY_ENCODED, e.data))
      restored(d, a) == [a.T EXCEPT !.root = d.stored.hash, !.root_handle = InMemory(a.h)]
      destroyed(d) ==
        IF d.stored.s = "new"
        THEN encoded_root(into_encoded(d.T, d.stored.node, EMPTY_ENCODED))
        ELSE restored(d, alloc(d.T, Cached(d.stored.node, d.stored.hash)))
      drained(T1) ==
        IF T1.root_handle.k = "hash" THEN T1
        ELSE destroyed(destroy(T1, T1.root_handle.i))
  IN drained(drain(T, T.death_row))

\* ------------------------------------------------------- the TrieMut trait
\* as remove, but an emptied trie does not reset the root cell
remove_keeps_root(T, key) ==
  LET removed(r) ==
        IF ~r.ok THEN [ok |-> FALSE, err |-> r.err, T |-> r.T]
        ELSE IF r.deleted
        THEN [ok |-> TRUE, ret |-> r.old_val,
              T |-> [r.T EXCEPT !.root_handle = HashHandle(hashed_null_node)]]
        ELSE [ok |-> TRUE, ret |-> r.old_val,
              T |-> [r.T EXCEPT !.root_handle = InMemory(r.h)]]
  IN removed(remove_at(T, T.root_handle, NibbleSlice_new(key), 0, None))

\* as remove, but an emptied trie is left with an in-arena Empty root
remove_leaving_empty_root(T, key) ==
  LET emptied(r, a) ==
        [ok |-> TRUE, ret |-> r.old_val,
         T |-> [a.T EXCEPT !.root_handle = InMemory(a.h), !.root = hashed_null_node]]
      removed(r) ==
        IF ~r.ok THEN [ok |-> FALSE, err |-> r.err, T |-> r.T]
        ELSE IF r.deleted
        THEN emptied(r, alloc(r.T, New(Empty)))
        ELSE [ok |-> TRUE, ret |-> r.old_val,
              T |-> [r.T EXCEPT !.root_handle = InMemory(r.h)]]
  IN removed(remove_at(T, T.root_handle, NibbleSlice_new(key), 0, None))

\* TrieMut::remove
remove(T, key) ==
  LET removed(r) ==
        IF ~r.ok THEN [ok |-> FALSE, err |-> r.err, T |-> r.T]
        ELSE IF r.deleted
        THEN [ok |-> TRUE, ret |-> r.old_val,
              T |-> [r.T EXCEPT !.root_handle = HashHandle(hashed_null_node),
                                !.root = hashed_null_node]]
        ELSE [ok |-> TRUE, ret |-> r.old_val,
              T |-> [r.T EXCEPT !.root_handle = InMemory(r.h)]]
  IN removed(remove_at(T, T.root_handle, NibbleSlice_new(key), 0, None))

\* as insert, but returning the value just written
insert_returns_new(T, key, value) ==
  LET inserted(r) ==
        IF ~r.ok THEN [ok |-> FALSE, err |-> r.err, T |-> r.T]
        ELSE [ok |-> TRUE, ret |-> Some(value),
              T |-> [r.T EXCEPT !.root_handle = InMemory(r.h)]]
  IN IF is_empty_value(value) THEN remove(T, key)
     ELSE inserted(insert_at(T, T.root_handle, NibbleSlice_new(key), 0, value, None))

\* as insert, but without the redirect of an empty value to remove
insert_stores_empty(T, key, value) ==
  LET inserted(r) ==
        IF ~r.ok THEN [ok |-> FALSE, err |-> r.err, T |-> r.T]
        ELSE [ok |-> TRUE, ret |-> r.old_val,
              T |-> [r.T EXCEPT !.root_handle = InMemory(r.h)]]
  IN inserted(insert_at(T, T.root_handle, NibbleSlice_new(key), 0, value, None))

\* TrieMut::insert
insert(T, key, value) ==
  LET inserted(r) ==
        IF ~r.ok THEN [ok |-> FALSE, err |-> r.err, T |-> r.T]
        ELSE [ok |-> TRUE, ret |-> r.old_val,
              T |-> [r.T EXCEPT !.root_handle = InMemory(r.h)]]
  IN IF is_empty_value(value) THEN remove(T, key)
     ELSE inserted(insert_at(T, T.root_handle, NibbleSlice_new(key), 0, value, None))

\* TrieMut::root
root_of(T) == commit(T).root

\* as TrieMut_root, but answering from the root cell without committing
root_without_commit(T) == [ok |-> TRUE, ret |-> Some(T.root), T |-> T]

\* TrieMut::root as a call on the session: commit, then read the root cell
TrieMut_root(T) ==
  LET committed(T1) == [ok |-> TRUE, ret |-> Some(T1.root), T |-> T1]
  IN committed(commit(T))

\* as TrieMut_get, but demand-loading a ByHash root into the arena first
get_caching(T, key) ==
  LET got(U, g) ==
        IF g.ok THEN [ok |-> TRUE, ret |-> g.val, T |-> U]
        ELSE [ok |-> FALSE, err |-> g.err, T |-> U]
      loaded(U) == got(U, get(U, key))
      cached(c) == IF c.ok THEN loaded([c.T EXCEPT !.root_handle = InMemory(c.h)])
                   ELSE loaded(T)
  IN IF T.root_handle.k = "hash" THEN cached(cache(T, T.root_handle.h, EMPTY_ENCODED))
     ELSE loaded(T)

\* TrieMut::get as a call on the session: get takes &self, so the session
\* it leaves is the one it was given
TrieMut_get(T, key) ==
  LET got(g) ==
        IF g.ok THEN [ok |-> TRUE, ret |-> g.val, T |-> T]
        ELSE [ok |-> FALSE, err |-> g.err, T |-> T]
  IN got(get(T, key))

\* as drop, but without the commit
drop_without_commit(T) == T

\* Drop for TrieDBMut
drop(T) == commit(T)

\* TrieError::InvalidStateRoot
InvalidStateRoot(h) == [invalid_state_root |-> h]

\* as TrieDBMut_new, but leaving the root cell as it was
new_keeping_root_cell(backing, root_cell) ==
  [nodes |-> <<>>, free_indices |-> <<>>, db |-> backing,
   root |-> root_cell, root_handle |-> HashHandle(hashed_null_node),
   death_row |-> {}, hash_count |-> 0, calls |-> <<>>,
   transmuted |-> {}]

\* TrieDBMut::new over the backing store and root cell it borrows
TrieDBMut_new(backing, root_cell) ==
  [nodes |-> <<>>, free_indices |-> <<>>, db |-> backing,
   root |-> hashed_null_node, root_handle |-> HashHandle(hashed_null_node),
   death_row |-> {}, hash_count |-> 0, calls |-> <<>>,
   transmuted |-> {}]

\* as from_existing, but adopting the root cell without asking the store
from_existing_unchecked(backing, root_cell) ==
  [ok |-> TRUE,
   T |-> [nodes |-> <<>>, free_indices |-> <<>>, db |-> backing,
          root |-> root_cell, root_handle |-> HashHandle(root_cell),
          death_row |-> {}, hash_count |-> 0, calls |-> <<>>,
   transmuted |-> {}]]

\* TrieDBMut::from_existing
from_existing(backing, root_cell) ==
  IF ~db_contains(backing, root_cell, EMPTY_ENCODED)
  THEN [ok |-> FALSE, err |-> InvalidStateRoot(root_cell)]
  ELSE [ok |-> TRUE,
        T |-> [nodes |-> <<>>, free_indices |-> <<>>, db |-> backing,
               root |-> root_cell, root_handle |-> HashHandle(root_cell),
               death_row |-> {}, hash_count |-> 0, calls |-> <<>>,
   transmuted |-> {}]]

\* TrieDBMut::new over an empty MemoryDB
new_session ==
  [nodes |-> <<>>, free_indices |-> <<>>, db |-> EmptyDb,
   root |-> hashed_null_node, root_handle |-> HashHandle(hashed_null_node),
   death_row |-> {}, hash_count |-> 0, calls |-> <<>>,
   transmuted |-> {}]

\* -------------------------------------------------- reference construction
\* the canonical trie of a set of (nibble key, value) pairs, built directly
RefPairs(c) == {<<NibbleSlice_new(k), c[k][1]>> : k \in {x \in DOMAIN c : c[x] /= None}}

SharedLen(pairs) ==
  LET one == CHOOSE p \in pairs : TRUE
      agree(n) == \A p \in pairs : Len(p[1]) >= n /\ SubSeq(p[1], 1, n) = SubSeq(one[1], 1, n)
  IN CHOOSE n \in 0..Len(one[1]) : agree(n) /\ (n = Len(one[1]) \/ ~agree(n + 1))

RefChild(data) ==
  IF data.len >= LENGTH THEN RefHash(Hasher_hash(data)) ELSE RefInline(data, data.len)

RECURSIVE RefNode(_)
RefNode(pairs) ==
  LET one == CHOOSE p \in pairs : TRUE
      cp == SharedLen(pairs)
      ends == {p \in pairs : p[1] = <<>>}
      under(i) == {<<Tail(p[1]), p[2]>> : p \in {q \in pairs : q[1] /= <<>> /\ q[1][1] = i}}
  IN IF Cardinality(pairs) = 1 THEN leaf_node(encoded(one[1], TRUE), one[2])
     ELSE IF cp > 0
     THEN ext_node(encoded(SubSeq(one[1], 1, cp), FALSE),
                   RefChild(RefNode({<<mid(p[1], cp), p[2]>> : p \in pairs})))
     ELSE branch_node([i \in NibbleIdx |-> IF under(i) = {} THEN NoChild
                                           ELSE RefChild(RefNode(under(i)))],
                      IF ends = {} THEN None ELSE Some((CHOOSE p \in ends : TRUE)[2]))

RefRoot(c) == IF RefPairs(c) = {} THEN hashed_null_node ELSE Hasher_hash(RefNode(RefPairs(c)))

\* ------------------------------------------------------------------- state
VARIABLES
  nodes,         \* storage.nodes
  free_indices,  \* storage.free_indices
  db,            \* the backing store
  root,          \* the external root cell
  root_handle,
  death_row,
  hash_count,
  content,       \* history: for each key its latest successful mutation
  first_err,     \* history: the first error a call returned, if any
  last,          \* history: the last call and what it returned
  phase,         \* history: "fill" while only absent keys were inserted,
                 \*          "drain" once only removals followed, else "mixed"
  tampers,       \* number of db_mut() removals made behind the session
  ops,           \* number of calls made
  live           \* a session borrows the backing store and the root cell

vars == <<nodes, free_indices, db, root, root_handle, death_row, hash_count,
          content, first_err, last, phase, tampers, ops, live>>

Self == [nodes |-> nodes, free_indices |-> free_indices, db |-> db, root |-> root,
         root_handle |-> root_handle, death_row |-> death_row, hash_count |-> hash_count,
         calls |-> <<>>, transmuted |-> {}]

SetSelf(T) ==
  /\ nodes' = T.nodes
  /\ free_indices' = T.free_indices
  /\ db' = T.db
  /\ root' = T.root
  /\ root_handle' = T.root_handle
  /\ death_row' = T.death_row
  /\ hash_count' = T.hash_count

failed == first_err /= None

Call(op, key, value, r) ==
  [op |-> op, key |-> key, value |-> value, ok |-> r.ok,
   ret |-> IF r.ok THEN r.ret ELSE None,
   err |-> IF r.ok THEN None ELSE Some(r.err)]

Returned == [ok |-> TRUE, ret |-> None]

Init ==
  /\ nodes = new_session.nodes
  /\ free_indices = new_session.free_indices
  /\ db = new_session.db
  /\ root = new_session.root
  /\ root_handle = new_session.root_handle
  /\ death_row = new_session.death_row
  /\ hash_count = new_session.hash_count
  /\ content = [k \in Keys \cup LeafKeys |-> None]
  /\ first_err = None
  /\ last = Call("new", <<>>, EmptyValue, Returned)
  /\ phase = "fill"
  /\ tampers = 0
  /\ ops = 0
  /\ live = TRUE

Noted(r) == IF first_err = None /\ ~r.ok THEN Some(r.err) ELSE first_err

\* t.insert(key, value)
DoInsert(key, value) ==
  /\ LET returned(r) ==
           /\ SetSelf(r.T)
           /\ content' = IF r.ok
                         THEN [content EXCEPT ![key] = IF is_empty_value(value) THEN None ELSE Some(value)]
                         ELSE content
           /\ first_err' = Noted(r)
           /\ last' = Call("insert", key, value, r)
     IN returned(insert(Self, key, value))
  /\ phase' = IF is_empty_value(value)
              THEN (IF phase = "mixed" THEN "mixed" ELSE "drain")
              ELSE (IF phase = "fill" /\ content[key] = None THEN "fill" ELSE "mixed")
  /\ ops' = ops + 1
  /\ UNCHANGED <<tampers, live>>

\* t.remove(key)
DoRemove(key) ==
  /\ LET returned(r) ==
           /\ SetSelf(r.T)
           /\ content' = IF r.ok THEN [content EXCEPT ![key] = None] ELSE content
           /\ first_err' = Noted(r)
           /\ last' = Call("remove", key, EmptyValue, r)
     IN returned(remove(Self, key))
  /\ phase' = IF phase = "mixed" THEN "mixed" ELSE "drain"
  /\ ops' = ops + 1
  /\ UNCHANGED <<tampers, live>>

\* t.commit()
DoCommit ==
  /\ SetSelf(commit(Self))
  /\ last' = Call("commit", <<>>, EmptyValue, Returned)
  /\ ops' = ops + 1
  /\ UNCHANGED <<content, first_err, tampers, live>>

\* ---- any calls, in any order
Insert(key, value) == ops < MaxOps /\ DoInsert(key, value)
Remove(key) == ops < MaxOps /\ DoRemove(key)
Commit == ops < MaxOps /\ DoCommit /\ UNCHANGED phase

Next ==
  \/ \E key \in Keys, value \in Vals \cup {EmptyValue} : Insert(key, value)
  \/ \E key \in Keys : Remove(key)
  \/ Commit

Spec == Init /\ [][Next]_vars

\* ---- fill, optionally commit, then drain: insert absent keys, then remove
\* present ones
RtInsert(key, value) == phase = "fill" /\ content[key] = None /\ DoInsert(key, value)
RtCommit == phase = "fill" /\ RefPairs(content) /= {} /\ DoCommit /\ phase' = "drain"
RtRemove(key) == content[key] /= None /\ DoRemove(key)

NextRoundTrip ==
  \/ \E key \in Keys, value \in Vals : RtInsert(key, value)
  \/ RtCommit
  \/ \E key \in Keys : RtRemove(key)

SpecRoundTrip == Init /\ [][NextRoundTrip]_vars

\* ---- any calls, and the caller's db_mut() may take a stored node away
\* t.db_mut().remove(hash, prefix)
DbMutRemove ==
  /\ tampers < MaxTampers
  /\ ops < MaxOps
  /\ \E k \in {x \in DOMAIN db : db[x].rc > 0} : db' = db_remove(db, k[2], k[1])
  /\ tampers' = tampers + 1
  /\ UNCHANGED <<nodes, free_indices, root, root_handle, death_row, hash_count,
                 content, first_err, last, phase, ops, live>>

NextErr ==
  \/ \E key \in Keys, value \in Vals \cup {EmptyValue} : Insert(key, value)
  \/ \E key \in Keys : Remove(key)
  \/ Commit
  \/ DbMutRemove

SpecErr == Init /\ [][NextErr]_vars

\* ---- sessions over one backing store and one root cell: a session is used
\* and dropped, the caller may overwrite the root cell, and another session
\* is opened with new() or from_existing()
\* t.root()
DoRoot ==
  /\ LET returned(r) ==
           /\ SetSelf(r.T)
           /\ last' = Call("root", <<>>, EmptyValue, r)
     IN returned(TrieMut_root(Self))
  /\ ops' = ops + 1
  /\ UNCHANGED <<content, first_err, phase, tampers, live>>

\* the hashes a caller can put in the root cell: the null-hash, the hash of
\* any node the store has seen, and the hash of a node it has never seen
RootCells ==
  {hashed_null_node} \cup {k[2] : k \in DOMAIN db}
    \cup {Hasher_hash(leaf_node(encoded(<<>>, TRUE), Value(0, LENGTH)))}

LiveInsert(key, value) == live /\ Insert(key, value)
LiveRemove(key) == live /\ Remove(key)
LiveCommit == live /\ Commit
Root == live /\ ops < MaxOps /\ DoRoot

\* drop(t)
Drop ==
  /\ live /\ ops < MaxOps
  /\ SetSelf(drop(Self))
  /\ live' = FALSE
  /\ last' = Call("drop", <<>>, EmptyValue, Returned)
  /\ ops' = ops + 1
  /\ UNCHANGED <<content, first_err, phase, tampers>>

\* *root_cell = h, between two sessions
SetRootCell(h) ==
  /\ ~live /\ tampers < MaxTampers
  /\ root' = h
  /\ tampers' = tampers + 1
  /\ UNCHANGED <<nodes, free_indices, db, root_handle, death_row, hash_count,
                 content, first_err, last, phase, ops, live>>

\* TrieDBMut::new(&mut db, &mut root)
NewSession ==
  /\ ~live /\ ops < MaxOps
  /\ SetSelf(TrieDBMut_new(db, root))
  /\ live' = TRUE
  /\ content' = [k \in Keys \cup LeafKeys |-> None]
  /\ phase' = "fill"
  /\ last' = Call("new", <<>>, EmptyValue, Returned)
  /\ ops' = ops + 1
  /\ UNCHANGED <<first_err, tampers>>

\* TrieDBMut::from_existing(&mut db, &mut root)
FromExisting ==
  /\ ~live /\ ops < MaxOps
  /\ LET r == from_existing(db, root)
     IN /\ IF r.ok THEN SetSelf(r.T)
                   ELSE UNCHANGED <<nodes, free_indices, db, root, root_handle,
                                    death_row, hash_count>>
        /\ live' = r.ok
        /\ first_err' = Noted(r)
        /\ last' = [op |-> "from_existing", key |-> <<>>, value |-> EmptyValue,
                    ok |-> r.ok, ret |-> None,
                    err |-> IF r.ok THEN None ELSE Some(r.err)]
  /\ ops' = ops + 1
  /\ UNCHANGED <<content, phase, tampers>>

NextLife ==
  \/ \E key \in Keys, value \in Vals \cup {EmptyValue} : LiveInsert(key, value)
  \/ \E key \in Keys : LiveRemove(key)
  \/ LiveCommit
  \/ Root
  \/ Drop
  \/ \E h \in RootCells : SetRootCell(h)
  \/ NewSession
  \/ FromExisting

SpecLife == Init /\ [][NextLife]_vars

\* ---- any calls, reads among them
\* t.get(key)
DoGet(key) ==
  /\ LET returned(r) ==
           /\ SetSelf(r.T)
           /\ first_err' = Noted(r)
           /\ last' = Call("get", key, EmptyValue, r)
     IN returned(TrieMut_get(Self, key))
  /\ ops' = ops + 1
  /\ UNCHANGED <<content, phase, tampers, live>>

Get(key) == ops < MaxOps /\ DoGet(key)

NextGet ==
  \/ \E key \in Keys, value \in Vals \cup {EmptyValue} : Insert(key, value)
  \/ \E key \in Keys : Remove(key)
  \/ Commit
  \/ \E key \in Keys : Get(key)

SpecGet == Init /\ [][NextGet]_vars

\* ---- any calls, over keys that make Leaves with an empty partial
NextLeaf ==
  \/ \E key \in LeafKeys, value \in Vals \cup {EmptyValue} : Insert(key, value)
  \/ \E key \in LeafKeys : Remove(key)
  \/ Commit

SpecLeaf == Init /\ [][NextLeaf]_vars

\* ----------------------------------------------------------- node views
\* the node a handle or child reference designates: an arena slot, the node
\* a hash is the digest of, or an inline node
NodeOf(T, x) ==
  IF x.k = "mem" THEN T.nodes[x.i].node
  ELSE IF x.k = "hash" THEN x.h.h
  ELSE x.data

Entries(n) ==
  Cardinality({i \in NibbleIdx : n.children[i].k /= "none"}) + (IF n.value = None THEN 0 ELSE 1)

RECURSIVE BranchesCanonical(_, _, _)
BranchesCanonical(T, x, is_root) ==
  LET n == NodeOf(T, x)
  IN CASE n.t = "branch" ->
            /\ is_root \/ Entries(n) >= 2
            /\ \A i \in NibbleIdx :
                 n.children[i].k /= "none" => BranchesCanonical(T, n.children[i], FALSE)
       [] n.t = "ext" -> BranchesCanonical(T, n.child, FALSE)
       [] OTHER -> TRUE

RECURSIVE ExtensionsCanonical(_, _)
ExtensionsCanonical(T, x) ==
  LET n == NodeOf(T, x)
  IN CASE n.t = "branch" ->
            \A i \in NibbleIdx :
              n.children[i].k /= "none" => ExtensionsCanonical(T, n.children[i])
       [] n.t = "ext" ->
            /\ NibbleSlice_from_encoded(n.partial) /= <<>>
            /\ NodeOf(T, n.child).t = "branch"
            /\ ExtensionsCanonical(T, n.child)
       [] OTHER -> TRUE

RECURSIVE HasInnerBranch(_, _, _)
\* a Branch other than the root is reachable from x
HasInnerBranch(T, x, is_root) ==
  LET n == NodeOf(T, x)
  IN \/ n.t = "branch" /\ ~is_root
     \/ n.t = "branch" /\ \E i \in NibbleIdx :
                            n.children[i].k /= "none" /\ HasInnerBranch(T, n.children[i], FALSE)
     \/ n.t = "ext" /\ HasInnerBranch(T, n.child, FALSE)

RECURSIVE HasExtension(_, _)
\* an Extension is reachable from x
HasExtension(T, x) ==
  LET n == NodeOf(T, x)
  IN \/ n.t = "ext"
     \/ n.t = "branch" /\ \E i \in NibbleIdx :
                            n.children[i].k /= "none" /\ HasExtension(T, n.children[i])

RECURSIVE Resolvable(_, _, _)
\* every hash reference below ref, under its path prefix, is in the store
Resolvable(store, ref, prefix) ==
  LET got == db_get(store, ref.h, prefix)
      data == IF ref.k = "hash" THEN got[1] ELSE ref.data
  IN /\ ref.k = "hash" => got /= None
     /\ CASE data.t = "ext" ->
               Resolvable(store, data.child, combine_encoded(prefix, data.partial))
          [] data.t = "branch" ->
               \A i \in NibbleIdx :
                 data.children[i].k /= "none" =>
                   Resolvable(store, data.children[i],
                              combine_encoded(prefix, encoded(<<i>>, FALSE)))
          [] OTHER -> TRUE

RECURSIVE NoEmptyValueIn(_)
NoEmptyValueIn(data) ==
  CASE data.t = "leaf" -> ~is_empty_value(data.value)
    [] data.t = "ext" -> data.child.k = "inline" => NoEmptyValueIn(data.child.data)
    [] data.t = "branch" ->
         /\ data.value = None \/ ~is_empty_value(data.value[1])
         /\ \A i \in NibbleIdx :
              data.children[i].k = "inline" => NoEmptyValueIn(data.children[i].data)
    [] OTHER -> TRUE

NoEmptyValueStored ==
  /\ \A i \in 1..Len(nodes) :
       LET n == nodes[i].node
       IN /\ n.t = "leaf" => ~is_empty_value(n.value)
          /\ n.t = "branch" => (n.value = None \/ ~is_empty_value(n.value[1]))
  /\ \A k \in DOMAIN db : NoEmptyValueIn(db[k].data)

Present == {k \in Keys : content[k] /= None}

\* ------------------------------------------------------------------ claims

\* C1: while every call has succeeded, get(k) is Some(v) exactly for the keys
\* whose latest mutation was insert(k, v) and None for the others, in every
\* state, so both right before and right after a commit().
C1_GetReturnsLatest ==
  ~failed => \A k \in Keys : get(Self, k) = [ok |-> TRUE, val |-> content[k]]

\* C2: after inserting a set of pairs with unique keys (and nothing else) and
\* committing, the committed root is the root of the reference trie of the
\* pairs, and the root handle designates it.
C2_CommittedRootIsReference ==
  (phase = "fill" /\ ~failed /\ last.op = "commit") =>
    (root = RefRoot(content) /\ root_handle = HashHandle(root))

C2_Witness ==
  /\ phase = "fill" /\ last.op = "commit" /\ ~failed
  /\ Cardinality(Present) >= 2
  /\ hash_count >= 2
  /\ root = RefRoot(content)

\* C3: whatever inserts, removes and commits were made, root() is a function
\* of the pairs now present: it is the reference root of those pairs.
C3_RootIsFunctionOfPairs == ~failed => root_of(Self) = RefRoot(content)

C3_Witness ==
  /\ phase = "mixed" /\ ~failed
  /\ Cardinality(Present) >= 2
  /\ root_of(Self) = RefRoot(content)

\* C4: inserting pairs with unique keys, optionally committing, and removing
\* every key in any order never fails, and leaves is_empty() true and root()
\* equal to the null-hash.
C4_RoundTripEmpties ==
  /\ first_err = None
  /\ (phase = "drain" /\ Present = {}) =>
       (is_empty(Self) /\ root_of(Self) = hashed_null_node)

C4_Witness ==
  /\ phase = "drain" /\ Present = {}
  /\ ops = 2 * NumKeys + 1
  /\ is_empty(Self)

\* C5: a successful insert or remove of k returns the value stored under k
\* right before the call, None if k was absent.
C5_ReturnsOldValue ==
  [][(last'.op \in {"insert", "remove"} /\ first_err' = None)
       => last'.ret = content[last'.key]]_vars

C5_Witness ==
  /\ ~failed
  /\ last.op = "insert" /\ ~is_empty_value(last.value)
  /\ last.ret /= None /\ last.ret /= Some(last.value)

\* C6: from every reachable state insert(k, empty) returns what remove(k)
\* returns and leaves the session remove(k) leaves, and no empty value is
\* ever stored in the arena or in the backing store.
C6_InsertEmptyIsRemove ==
  /\ \A k \in Keys : insert(Self, k, EmptyValue) = remove(Self, k)
  /\ NoEmptyValueStored

C6_Witness ==
  /\ last.op = "insert" /\ is_empty_value(last.value) /\ last.ok
  /\ last.ret /= None
  /\ content[last.key] = None
  /\ Present /= {}

\* C7: while every call has succeeded, no Branch reachable from the root,
\* other than the root, has fewer than two outgoing entries.
C7_BranchesCanonical == ~failed => BranchesCanonical(Self, root_handle, TRUE)

C7_Witness ==
  /\ ~failed
  /\ last.op = "remove" /\ last.ret /= None
  /\ HasInnerBranch(Self, root_handle, TRUE)

\* C8: while every call has succeeded, every Extension reachable from the
\* root has a non-empty partial and a Branch as its child, and no call fails
\* on the assertion that an Extension's partial is non-empty.
C8_ExtensionsCanonical ==
  /\ first_err /= Some(AssertionFailed)
  /\ ~failed => ExtensionsCanonical(Self, root_handle)

C8_Witness ==
  /\ ~failed
  /\ last.op = "remove" /\ last.ret /= None
  /\ HasExtension(Self, root_handle)

\* C9: a call that returns an error leaves the root handle, the death row,
\* the backing store and the root cell as they were, and get(k) answers for
\* every key what it answered before the call.
C9_ErrorLeavesSessionAsBefore ==
  [][(ops' = ops + 1 /\ ~last'.ok) =>
       /\ root_handle' = root_handle
       /\ death_row' = death_row
       /\ db' = db
       /\ root' = root
       /\ \A k \in Keys : get(Self', k) = get(Self, k)]_vars

\* C10: after a commit() every node referenced by hash from the committed
\* root, transitively, is in the backing store under its path prefix.
C10_NoDanglingReference ==
  (last.op = "commit" /\ ~failed) => Resolvable(db, RefHash(root), EMPTY_ENCODED)

RECURSIVE Referenced(_, _)
\* the (prefix, hash) store keys of the nodes referenced by hash from ref,
\* ref itself included, each under its path prefix
Referenced(ref, prefix) ==
  LET data == IF ref.k = "hash" THEN ref.h.h ELSE ref.data
      own == IF ref.k = "hash" /\ ref.h /= hashed_null_node
             THEN {db_key(ref.h, prefix)} ELSE {}
  IN CASE data.t = "ext" ->
            own \cup Referenced(data.child, combine_encoded(prefix, data.partial))
       [] data.t = "branch" ->
            own \cup UNION {Referenced(data.children[i],
                                       combine_encoded(prefix, encoded(<<i>>, FALSE))) :
                            i \in {j \in NibbleIdx : data.children[j].k /= "none"}}
       [] OTHER -> own

\* the entries the backing store holds
Held(store) == {k \in DOMAIN store : store[k].rc > 0}

\* C11: after a commit() every entry the backing store holds is a node
\* referenced from the committed root under the prefix it is stored under.
C11_NoStaleEntry ==
  (last.op = "commit" /\ ~failed) => Held(db) \subseteq Referenced(RefHash(root), EMPTY_ENCODED)

\* C12: insert and remove, whether they succeed or fail, leave the backing
\* store as it was (get and is_empty take the session by shared reference
\* and return no session); only commit() writes to it.
C12_OnlyCommitWrites ==
  [][(ops' = ops + 1 /\ last'.op \in {"insert", "remove"}) => db' = db]_vars

C12_Witness ==
  /\ last.op \in {"insert", "remove"} /\ last.ok
  /\ root_handle.k = "mem"
  /\ Held(db) /= {}
  /\ \E e \in death_row : e[1] /= hashed_null_node

\* C13: when root() returns, the digest it returns is the content of the
\* root cell and, while every call has succeeded on an untouched root cell,
\* the reference root of the pairs present; the death row is empty and the
\* root handle does not designate a New arena node.
C13_RootCommits ==
  last.op = "root" =>
    /\ last.ret = Some(root)
    /\ (~failed /\ tampers = 0) => last.ret = Some(RefRoot(content))
    /\ death_row = {}
    /\ root_handle.k = "mem" => nodes[root_handle.i].s /= "new"

C13_Witness ==
  /\ last.op = "root" /\ ops = 3
  /\ Cardinality(Present) = 2
  /\ last.ret = Some(RefRoot(content))
  /\ db_contains(db, root, EMPTY_ENCODED)

\* C14: after a session whose calls all succeeded is dropped, the root cell
\* holds the reference root of the pairs present, the backing store contains
\* that root under the empty prefix, and from_existing on the same store and
\* root cell succeeds.
C14_DropCommits ==
  (last.op = "drop" /\ ~failed /\ tampers = 0) =>
    /\ root = RefRoot(content)
    /\ db_contains(db, root, EMPTY_ENCODED)
    /\ from_existing(db, root).ok

C14_Witness ==
  /\ last.op = "drop" /\ ops = 3 /\ ~live
  /\ Cardinality(Present) = 2
  /\ root /= hashed_null_node
  /\ from_existing(db, root).ok

\* C15: from_existing fails with InvalidStateRoot(h), h the content of the
\* root cell, exactly when the store does not contain h under the empty
\* prefix; otherwise it yields a session with root handle Hash(h), an empty
\* arena and an empty death row; either way the root cell and the store are
\* as before.
C15_FromExisting ==
  [][(ops' = ops + 1 /\ last'.op = "from_existing") =>
       /\ root' = root /\ db' = db
       /\ IF db_contains(db, root, EMPTY_ENCODED)
          THEN /\ last'.ok /\ live'
               /\ root_handle' = HashHandle(root)
               /\ nodes' = <<>> /\ free_indices' = <<>> /\ death_row' = {}
          ELSE /\ ~last'.ok /\ ~live'
               /\ last'.err = Some(InvalidStateRoot(root))]_vars

C15_Witness ==
  /\ last.op = "from_existing" /\ ~last.ok
  /\ last.err = Some(InvalidStateRoot(root))
  /\ \E k \in Held(db) : k[2] = root /\ k[1] /= EMPTY_ENCODED

\* C16: right after new(), whatever the root cell held and whatever the
\* store holds, the root cell is the null-hash, the root handle is
\* Hash(null-hash), the arena and the death row are empty, is_empty() is
\* true, get(k) is None for every key and root() is the null-hash.
C16_NewIsEmpty ==
  last.op = "new" =>
    /\ root = hashed_null_node
    /\ root_handle = HashHandle(hashed_null_node)
    /\ nodes = <<>> /\ free_indices = <<>> /\ death_row = {}
    /\ is_empty(Self)
    /\ \A k \in Keys : get(Self, k) = [ok |-> TRUE, val |-> None]
    /\ root_of(Self) = hashed_null_node

C16_Witness ==
  /\ last.op = "new" /\ ops >= 3 /\ live
  /\ Held(db) /= {}
  /\ is_empty(Self)

RECURSIVE FirstMissing(_, _, _, _)
\* descending from x along key: the first hash handle the store holds no
\* node for under the prefix of its position, if any
FirstMissing(T, x, key, pos) ==
  IF x.k = "hash" /\ db_get(T.db, x.h, encoded_leftmost(key, pos, FALSE)) = None
  THEN Some(x.h)
  ELSE LET n == NodeOf(T, x)
           partial == mid(key, pos)
       IN CASE n.t = "branch" /\ partial /= <<>> ->
                 IF n.children[partial[1]].k = "none" THEN None
                 ELSE FirstMissing(T, n.children[partial[1]], key, pos + 1)
            [] n.t = "ext" /\ starts_with(partial, NibbleSlice_from_encoded(n.partial)) ->
                 FirstMissing(T, n.child, key, pos + Len(NibbleSlice_from_encoded(n.partial)))
            [] OTHER -> None

RECURSIVE Missing(_, _, _)
\* the hashes referenced from x, x included, that the store holds no node
\* for under their path prefix
Missing(T, x, prefix) ==
  IF x.k = "hash" /\ db_get(T.db, x.h, prefix) = None THEN {x.h}
  ELSE LET n == NodeOf(T, x)
       IN CASE n.t = "branch" ->
                 UNION {Missing(T, n.children[i], combine_encoded(prefix, encoded(<<i>>, FALSE))) :
                        i \in {j \in NibbleIdx : n.children[j].k /= "none"}}
            [] n.t = "ext" -> Missing(T, n.child, combine_encoded(prefix, n.partial))
            [] OTHER -> {}

\* C17: an insert or remove whose descent along the key meets a hash handle
\* the store holds no node for fails with IncompleteDatabase of that hash;
\* and every failure of insert or remove is IncompleteDatabase of a hash
\* that the trie references and the store holds no node for, never a panic.
C17_IncompleteDatabase ==
  [][(ops' = ops + 1 /\ last'.op \in {"insert", "remove"}) =>
       LET first == FirstMissing(Self, root_handle, NibbleSlice_new(last'.key), 0)
       IN /\ first /= None => (~last'.ok /\ last'.err = first)
          /\ ~last'.ok => last'.err[1] \in Missing(Self, root_handle, EMPTY_ENCODED)]_vars

C17_Witness ==
  /\ last.op \in {"insert", "remove"} /\ ~last.ok
  /\ last.err /= None /\ last.err[1] /= root
  /\ last.err[1] \in {k[2] : k \in DOMAIN db}

\* C18: while every call has succeeded, is_empty() is true exactly when no
\* key is present, which is exactly when get(k) is None for every key.
C18_IsEmptyIffNoKey ==
  ~failed =>
    /\ is_empty(Self) <=> Present = {}
    /\ is_empty(Self) <=> \A k \in Keys : get(Self, k) = [ok |-> TRUE, val |-> None]

C18_Witness ==
  /\ ~failed /\ is_empty(Self)
  /\ last.op = "remove" /\ last.ret /= None
  /\ Present = {}
  /\ hash_count >= 1

\* C19: every pair (h, p) an insert adds to the death row, at whatever depth,
\* has p the prefix under which h was demand-loaded: the store holds h under
\* p.  (Only inspect adds to the death row during an insert.)
C19_DeathRowPrefixAtEntry ==
  [][(ops' = ops + 1 /\ last'.op = "insert" /\ ~is_empty_value(last'.value)) =>
       \A e \in death_row' \ death_row :
         e[1] = hashed_null_node \/ db_key(e[1], e[2]) \in Held(db)]_vars

RECURSIVE PathHashes(_, _, _, _)
\* the hashes of the hash handles met descending from x along key
PathHashes(T, x, key, pos) ==
  LET n == NodeOf(T, x)
      partial == mid(key, pos)
      own == IF x.k = "hash" THEN {x.h} ELSE {}
  IN CASE n.t = "branch" /\ partial /= <<>> ->
            IF n.children[partial[1]].k = "none" THEN own
            ELSE own \cup PathHashes(T, n.children[partial[1]], key, pos + 1)
       [] n.t = "ext" /\ starts_with(partial, NibbleSlice_from_encoded(n.partial)) ->
            own \cup PathHashes(T, n.child, key,
                                pos + Len(NibbleSlice_from_encoded(n.partial)))
       [] OTHER -> own

\* C20: the pairs (h, p) a remove adds to the death row for nodes off the
\* key's path, which are the cached children fix merges into their parent,
\* have p the prefix under which h was demand-loaded and stored: the store
\* holds h under p.
C20_FixDeathRowPrefix ==
  [][(ops' = ops + 1 /\ last'.op = "remove" /\ last'.ok) =>
       \A e \in death_row' \ death_row :
         e[1] \notin PathHashes(Self, root_handle, NibbleSlice_new(last'.key), 0)
           => db_key(e[1], e[2]) \in Held(db)]_vars

\* the arena slots in use
LiveSlots(T) ==
  {i \in 1..Len(T.nodes) : \A j \in 1..Len(T.free_indices) : T.free_indices[j] /= i}

\* the encoded length of the node in slot i
SlotLen(T, i) ==
  LET len(e) == e.data.len
  IN len(into_encoded(T, T.nodes[i].node, EMPTY_ENCODED))

\* nothing is pending: the death row is empty, an in-arena root is Cached
\* under the root cell's hash, and the only New slots in use are the inline
\* children that decoding a node puts in the arena (shorter than a hash)
AllCached(T) ==
  /\ T.death_row = {}
  /\ T.root_handle.k = "mem" =>
       /\ T.nodes[T.root_handle.i].s = "cached"
       /\ T.nodes[T.root_handle.i].hash = T.root
  /\ \A i \in LiveSlots(T) : T.nodes[i].s = "new" => SlotLen(T, i) < LENGTH

\* the call that returned r on session T changed nothing: it succeeded, left
\* nothing pending and the store, root cell and hash_count as they were, and
\* the commit that follows makes no call on the store and keeps the root
Unchanging(T, r) ==
  LET idle(T2) ==
        /\ T2.calls = <<>>
        /\ T2.db = T.db /\ T2.root = T.root /\ T2.hash_count = T.hash_count
  IN /\ r.ok
     /\ AllCached(r.T)
     /\ r.T.db = T.db /\ r.T.root = T.root /\ r.T.hash_count = T.hash_count
     /\ idle(commit(r.T))

CallPairs(c, i, j) == {<<c[n].hash, c[n].prefix>> : n \in i..j}

\* C22: a commit first calls backing.remove once for each pair of the death
\* row, and only then makes its backing.insert calls; it leaves the death row
\* empty, and with a ByHash root handle it does nothing else.
C22_CommitDrainsFirst ==
  [][(ops' = ops + 1 /\ last'.op = "commit") =>
       LET c == commit(Self).calls
           n == Cardinality(death_row)
       IN /\ db' = commit(Self).db
          /\ death_row' = {}
          /\ Len(c) >= n
          /\ \A i \in 1..n : c[i].call = "remove"
          /\ CallPairs(c, 1, n) = death_row
          /\ \A i \in (n + 1)..Len(c) : c[i].call = "insert"
          /\ root_handle.k = "hash" =>
               /\ Len(c) = n
               /\ nodes' = nodes /\ free_indices' = free_indices
               /\ root' = root /\ root_handle' = root_handle
               /\ hash_count' = hash_count]_vars

\* a commit is about to drain two pairs and then write nodes
C22_Witness ==
  /\ ~failed
  /\ Cardinality(death_row) >= 2
  /\ Len(commit(Self).calls) >= Cardinality(death_row) + 2
  /\ commit(Self).death_row = {}

\* the store key a backing call addresses
CallKey(call) == db_key(call.hash, call.prefix)

\* C23: a commit of a New root makes its inserts in post-order: every node
\* it inserts that lies below another node it inserts is inserted before it;
\* the last call inserts the root under the empty prefix, and the root cell
\* and the root handle are the hash that insert returned.
C23_CommitPostOrder ==
  [][(/\ ops' = ops + 1 /\ last'.op = "commit"
      /\ root_handle.k = "mem" /\ nodes[root_handle.i].s = "new") =>
       LET c == commit(Self).calls
           n == Cardinality(death_row)
           m == Len(c)
       IN /\ db' = commit(Self).db
          /\ m > n
          /\ c[m] = BackingInsert(root', EMPTY_ENCODED)
          /\ root_handle' = HashHandle(root')
          /\ \A i, j \in (n + 1)..m :
               (j /= i /\ CallKey(c[j]) \in Referenced(RefHash(c[i].hash), c[i].prefix))
                 => j < i]_vars

\* a commit is about to insert a root over at least two inserted nodes
C23_Witness ==
  /\ ~failed
  /\ root_handle.k = "mem" /\ nodes[root_handle.i].s = "new"
  /\ LET c == commit(Self).calls
     IN /\ Len(c) >= Cardinality(death_row) + 3
        /\ \E i, j \in 1..Len(c) :
             /\ i < j /\ j < Len(c)
             /\ c[i].call = "insert" /\ c[j].call = "insert"
             /\ CallKey(c[i]) \in Referenced(RefHash(c[j].hash), c[j].prefix)

RECURSIVE NewWrites(_, _, _), NewBelow(_, _, _)
\* the (hash, prefix) pairs of the New nodes at and below handle x whose
\* encoding is at least a hash long, each under the prefix of its path;
\* nothing for a ByHash handle or a Cached slot
NewWrites(T, x, prefix) ==
  IF x.k /= "mem" THEN {}
  ELSE IF T.nodes[x.i].s = "cached" THEN {}
  ELSE LET own(e) == IF e.data.len >= LENGTH
                     THEN {<<Hasher_hash(e.data), prefix>>} ELSE {}
       IN NewBelow(T, T.nodes[x.i].node, prefix)
            \cup own(into_encoded(T, T.nodes[x.i].node, prefix))

\* the same for the children of a node
NewBelow(T, node, prefix) ==
  CASE node.t = "ext" ->
         NewWrites(T, node.child, combine_encoded(prefix, node.partial))
    [] node.t = "branch" ->
         UNION {NewWrites(T, node.children[i],
                          combine_encoded(prefix, encoded(<<i>>, FALSE))) :
                i \in {j \in NibbleIdx : node.children[j].k /= "none"}}
    [] OTHER -> {}

\* the handles a node holds
Kids(node) ==
  CASE node.t = "ext" -> {node.child}
    [] node.t = "branch" ->
         {node.children[i] : i \in {j \in NibbleIdx : node.children[j].k /= "none"}}
    [] OTHER -> {}

\* C24: in every state, a commit writes a New non-root node, under the
\* prefix of its path, exactly when its encoding is at least a hash long,
\* writes nothing for shorter New nodes, Cached slots and ByHash handles,
\* always writes a New root, and adds to hash_count the number of inserts it
\* makes.
C24_WritesByLength ==
  LET c == commit(Self).calls
      n == Cardinality(death_row)
      m == Len(c)
      new_root == root_handle.k = "mem" /\ nodes[root_handle.i].s = "new"
  IN ~failed =>
       /\ commit(Self).hash_count = hash_count + (m - n)
       /\ ~new_root => m = n
       /\ new_root =>
            /\ m > n
            /\ c[m].call = "insert" /\ c[m].prefix = EMPTY_ENCODED
            /\ CallPairs(c, n + 1, m - 1) =
                 NewBelow(Self, nodes[root_handle.i].node, EMPTY_ENCODED)
            /\ m - n - 1 =
                 Cardinality(NewBelow(Self, nodes[root_handle.i].node, EMPTY_ENCODED))

\* a commit is about to write a New root that holds a Cached slot and a New
\* node shorter than a hash, and to write nothing for these two
C24_Witness ==
  /\ ~failed
  /\ root_handle.k = "mem" /\ nodes[root_handle.i].s = "new"
  /\ LET kids == Kids(nodes[root_handle.i].node)
     IN /\ \E x \in kids : x.k = "mem" /\ nodes[x.i].s = "cached"
        /\ \E x \in kids : x.k = "mem" /\ nodes[x.i].s = "new" /\ SlotLen(Self, x.i) < LENGTH
  /\ Len(commit(Self).calls) = Cardinality(death_row) + 1

\* C25: get changes nothing of the session: arena, free list, root handle,
\* death row, root cell, hash_count and backing store are after a get what
\* they were before it, also when the walk goes through a ByHash handle.
C25_GetReadsOnly ==
  [][(ops' = ops + 1 /\ last'.op = "get") =>
       /\ nodes' = nodes /\ free_indices' = free_indices
       /\ root_handle' = root_handle /\ death_row' = death_row
       /\ root' = root /\ db' = db /\ hash_count' = hash_count
       /\ last'.ok => last'.ret = get(Self, last'.key).val]_vars

\* a get found a value through a ByHash handle: the root handle, or a child
\* of an in-arena root on the key's path
C25_Witness ==
  /\ last.op = "get" /\ last.ok /\ last.ret /= None
  /\ \/ root_handle.k = "hash" /\ root /= hashed_null_node
     \/ /\ root_handle.k = "mem"
        /\ \E x \in Kids(nodes[root_handle.i].node) : x.k = "hash"
        /\ PathHashes(Self, root_handle, NibbleSlice_new(last.key), 0) /= {}

\* panic!("Branch with no subvalues. Something went wrong.") in fix
BranchWithNoSubvalues == [panic |-> "Branch with no subvalues. Something went wrong."]

\* C26: no sequence of inserts, removes and commits from new() passes a
\* Branch with no child and no value to fix: no call ends in that panic.
C26_FixNeverPanics ==
  /\ last.err /= Some(BranchWithNoSubvalues)
  /\ first_err /= Some(BranchWithNoSubvalues)

\* fix was given a Branch with one entry left: a remove, after a commit, left
\* a single key, held by a New Leaf made of the Branch
C26_Witness ==
  /\ last.op = "remove" /\ last.ok /\ last.ret /= None
  /\ ~failed
  /\ hash_count >= 2
  /\ Cardinality(Present) = 1
  /\ root_handle.k = "mem"
  /\ nodes[root_handle.i].s = "new"
  /\ nodes[root_handle.i].node.t = "leaf"

\* the places that hold the in-arena handle idx: the root handle, the child
\* field of an Extension slot, a child field of a Branch slot
Owners(T, idx) ==
  (IF T.root_handle = InMemory(idx) THEN {<<"root">>} ELSE {})
    \cup {<<i>> : i \in {j \in 1..Len(T.nodes) :
                          /\ T.nodes[j].node.t = "ext"
                          /\ T.nodes[j].node.child = InMemory(idx)}}
    \cup {<<p[1], p[2]>> : p \in {q \in (1..Len(T.nodes)) \X NibbleIdx :
                          /\ T.nodes[q[1]].node.t = "branch"
                          /\ T.nodes[q[1]].node.children[q[2]] = InMemory(idx)}}

\* the indices on the free list
Freed(T) == {T.free_indices[j] : j \in 1..Len(T.free_indices)}

\* C27: while every call has succeeded, no arena index is held by two
\* handles (the root handle, the child fields of the nodes in the arena), no
\* index that is held is on the free list, and no index is on the free list
\* twice.
C27_OneOwner ==
  ~failed =>
    /\ \A idx \in 1..Len(nodes) :
         /\ Cardinality(Owners(Self, idx)) <= 1
         /\ Owners(Self, idx) /= {} => idx \notin Freed(Self)
    /\ Cardinality(Freed(Self)) = Len(free_indices)
    /\ root_handle.k = "mem" => root_handle.i \in 1..Len(nodes)

\* freed indices were handed out again: after a commit the arena holds a
\* root over two owned slots, and a freed index waits on the free list
C27_Witness ==
  /\ ~failed
  /\ hash_count >= 2
  /\ root_handle.k = "mem"
  /\ Cardinality({idx \in 1..Len(nodes) : Owners(Self, idx) /= {}}) >= 3
  /\ free_indices /= <<>>

\* C28: after a successful insert or remove the root handle is not an
\* in-arena handle of an Empty node, and while every call has succeeded a
\* trie without keys has the root handle ByHash(null hash).
C28_NoEmptyRootInArena ==
  (last.op \in {"insert", "remove"} /\ last.ok) =>
    /\ root_handle.k = "mem" => nodes[root_handle.i].node.t /= "empty"
    /\ (~failed /\ Present = {}) => root_handle = HashHandle(hashed_null_node)

\* a remove took the last key of a committed trie
C28_Witness ==
  /\ last.op = "remove" /\ last.ok /\ last.ret /= None
  /\ ~failed /\ tampers = 0
  /\ Present = {}
  /\ root_handle = HashHandle(hashed_null_node)
  /\ hash_count >= 1
  /\ death_row /= {}

RECURSIVE LeafMet(_, _, _, _, _)
\* where the descent of insert_at from x along key meets a Leaf with an
\* empty partial while nibbles of the key are left: "root" when x is the
\* root, else the kind of the node that holds the Leaf; "none" when it
\* meets no such Leaf
LeafMet(T, x, key, pos, holder) ==
  LET n == NodeOf(T, x)
      partial == mid(key, pos)
  IN CASE n.t = "branch" /\ partial /= <<>> ->
            IF n.children[partial[1]].k = "none" THEN "none"
            ELSE LeafMet(T, n.children[partial[1]], key, pos + 1, "branch")
       [] n.t = "ext" /\ starts_with(partial, NibbleSlice_from_encoded(n.partial)) ->
            LeafMet(T, n.child, key, pos + Len(NibbleSlice_from_encoded(n.partial)), "ext")
       [] n.t = "leaf" /\ NibbleSlice_from_encoded(n.partial) = <<>> /\ partial /= <<>> ->
            holder
       [] OTHER -> "none"

\* insert(key, value) on the session turns a Leaf with an empty partial into
\* a Branch carrying the Leaf's value
Transmutes(T, key, value) ==
  LET hit(r) == r.T.transmuted /= {}
  IN hit(insert(T, key, value))

\* C29 (as stated): an insert takes the path that turns a Leaf with an empty
\* partial into a Branch only when that Leaf is a non-root child of a Branch.
C29_OnlyUnderBranch ==
  ~failed =>
    \A key \in LeafKeys, value \in Vals :
      Transmutes(Self, key, value) =>
        LeafMet(Self, root_handle, NibbleSlice_new(key), 0, "root") = "branch"

\* C29 (amended): an insert of a non-empty value takes that path exactly
\* when its descent meets a Leaf with an empty partial while nibbles of the
\* key are left; that Leaf is a child of a Branch or the root Leaf holding
\* the empty key, never the child of an Extension; a remove, and so an
\* insert of the empty value, never takes it.
C29_UnderBranchOrAtRoot ==
  ~failed =>
    \A key \in LeafKeys, value \in Vals \cup {EmptyValue} :
      LET met == LeafMet(Self, root_handle, NibbleSlice_new(key), 0, "root")
      IN /\ met /= "ext"
         /\ Transmutes(Self, key, value) <=> (met /= "none" /\ ~is_empty_value(value))

\* an insert is about to turn a committed Leaf with an empty partial, held
\* by a Branch, into a Branch
C29_Witness ==
  /\ ~failed
  /\ hash_count >= 2
  /\ \E key \in LeafKeys, value \in Vals :
       /\ Transmutes(Self, key, value)
       /\ LeafMet(Self, root_handle, NibbleSlice_new(key), 0, "root") = "branch"

\* what a commit right after the commit that left T1 does and leaves
SecondCommitIdle(T1) ==
  LET same(T2) ==
        /\ T2.calls = <<>>
        /\ T2.db = T1.db
        /\ T2.root = T1.root
        /\ T2.hash_count = T1.hash_count
        /\ T2.death_row = {}
        /\ \A k \in Keys : get(T2, k) = get(T1, k)
  IN same(commit([T1 EXCEPT !.calls = <<>>]))

\* C30: in every state, a commit followed at once by a second commit: the
\* second makes no backing.insert and no backing.remove and leaves the
\* store, the root cell, hash_count and what get returns as the first left
\* them.
C30_CommitIdempotent == SecondCommitIdle(commit(Self))

\* a commit wrote nodes and drained the death row, and the commit that
\* follows has nothing to do
C30_Witness ==
  /\ last.op = "commit" /\ ~failed
  /\ hash_count >= 2
  /\ root /= hashed_null_node
  /\ \E k \in Keys, v \in Vals : get(Self, k) = [ok |-> TRUE, val |-> Some(v)]
  /\ commit(Self).calls = <<>>

\* C31 (as stated): every insert leaves the root cell as it was.
C31_InsertKeepsRootCell ==
  [][(ops' = ops + 1 /\ last'.op = "insert") => root' = root]_vars

\* C31 (amended): the root cell is written by new(), to the null hash; by a
\* commit, also the one root() and drop make, to what commit computes; and
\* by a remove, or an insert of the empty value, that succeeds and deletes
\* the whole trie, to the null hash at once; every insert of a non-empty
\* value, every other remove, every failed call and from_existing leave it
\* as it was.
C31_RootCellWriters ==
  [][ops' = ops + 1 =>
       LET removal == \/ last'.op = "remove"
                      \/ last'.op = "insert" /\ is_empty_value(last'.value)
           emptied == last'.ok /\ root_handle' = HashHandle(hashed_null_node)
       IN /\ last'.op = "new" => root' = hashed_null_node
          /\ last'.op \in {"commit", "root", "drop"} => root' = commit(Self).root
          /\ last'.op = "from_existing" => root' = root
          /\ (last'.op = "insert" /\ ~is_empty_value(last'.value)) => root' = root
          /\ (removal /\ emptied) => root' = hashed_null_node
          /\ (removal /\ ~emptied) => root' = root
          /\ (removal /\ last'.ok /\ ~failed /\ tampers = 0) =>
               (emptied <=> \A k \in Keys : content'[k] = None)]_vars

\* a remove took the last key of a committed trie: the root cell is the null
\* hash while the store still holds the committed nodes
C31_Witness ==
  /\ last.op = "remove" /\ last.ok /\ last.ret /= None
  /\ live /\ ~failed /\ tampers = 0
  /\ root = hashed_null_node
  /\ death_row /= {}
  /\ Held(db) /= {}

\* the calls of a sequence of backing calls
CallsOf(c) == {c[n] : n \in 1..Len(c)}

\* C32: an insert or a remove on a session whose root handle is
\* ByHash(null hash) succeeds and adds (null hash, empty prefix) to the death
\* row, and nothing else; an insert of a non-empty value leaves a New Leaf
\* as root, a remove leaves the root handle as it was and returns None; the
\* commit that follows calls backing.remove(null hash, empty prefix).
C32_EmptyTrieIsCached ==
  [][(/\ ops' = ops + 1 /\ last'.op \in {"insert", "remove"}
      /\ root_handle = HashHandle(hashed_null_node)) =>
       /\ last'.ok /\ last'.ret = None
       /\ death_row' = death_row \cup {<<hashed_null_node, EMPTY_ENCODED>>}
       /\ db' = db
       /\ IF last'.op = "insert" /\ ~is_empty_value(last'.value)
          THEN /\ root_handle'.k = "mem"
               /\ nodes'[root_handle'.i] =
                    New(Leaf(encoded(NibbleSlice_new(last'.key), TRUE), last'.value))
          ELSE root_handle' = root_handle
       /\ BackingRemove(hashed_null_node, EMPTY_ENCODED) \in CallsOf(commit(Self').calls)]_vars

\* the first call of a session over a store that holds nodes was an insert:
\* the null hash alone is on the death row
C32_Witness ==
  /\ last.op = "insert" /\ last.ok /\ live
  /\ Held(db) /= {}
  /\ death_row = {<<hashed_null_node, EMPTY_ENCODED>>}
  /\ root_handle.k = "mem" /\ nodes[root_handle.i].node.t = "leaf"


====
